---- MODULE Spec2Model ----
(***************************************************************************)
(* Model of the goldrust crate (src/src/lib.rs): the response-source       *)
(* decision taken by Goldrust::new, Goldrust::save writing the golden      *)
(* file, and the save check made when a Goldrust value is dropped.         *)
(*                                                                         *)
(* The file system is a map from golden file paths to files; a file is a   *)
(* sequence of the chunks serde_json's pretty printer hands to write_all.  *)
(* Contents passed to save are JSON arrays of small integers.              *)
(***************************************************************************)
EXTENDS Naturals, Sequences, FiniteSets

\* Longest array handed to save.
MaxLen == 1
\* Most save calls made on one Goldrust value.
MaxSaves == 2

\* The tests (one Goldrust value each) and the golden file paths they use.
Sess == {"t1", "t2"}
Paths == {"a.json", "b.json"}
\* The names the goldrust! macro derives from the test functions.
Names == {"a", "b"}
\* The integers an array may hold.
Elems == {0}

VARIABLES
    fs,        \* path -> the file at that path
    sess,      \* test -> its Goldrust value (and whether it exists)
    env,       \* test -> what Goldrust::new was given and read (environment, path, disk)
    calls,     \* test -> how many save calls were made, how many returned Ok, and
               \*         whether one of them opened the golden file
    teardown,  \* test -> what dropping its Goldrust value did
    message,   \* test -> the message of its panic, or of the error event of its drop
    last       \* the last operation performed and what it returned

vars == <<fs, sess, env, calls, teardown, message, last>>

------------------------------------------------------------------------------
\* Contents and their serialization

SeqsUpTo(n) == UNION {[1..k -> Elems] : k \in 0..n}

Contents == SeqsUpTo(MaxLen)

\* The chunk serde_json writes for one integer.
Digit(n) == IF n = 0 THEN "0" ELSE "1"

RECURSIVE ArrayValues(_, _)
\* The chunks written for the elements i..Len(c) of the array c: before each
\* value a newline (with a comma from the second on) and one indent.
ArrayValues(c, i) ==
    IF i > Len(c) THEN <<>>
    ELSE <<IF i = 1 THEN "\n" ELSE ",\n", "  ", Digit(c[i])>> \o ArrayValues(c, i + 1)

\* serde_json::to_writer_pretty of an array, as the sequence of write_all calls.
to_writer_pretty(c) ==
    IF Len(c) = 0 THEN <<"[", "]">>
    ELSE <<"[">> \o ArrayValues(c, 1) \o <<"\n", "]">>

------------------------------------------------------------------------------
\* Files

NoFile == [exists |-> FALSE, data |-> <<>>]

\* The existence test answers the opposite.
path_exists_negated(f) == ~f.exists

\* Path::exists
path_exists(f) == f.exists

\* OpenOptions with append instead of truncate: the old bytes stay and writes go to the end.
open_append(f) == [data |-> f.data, pos |-> Len(f.data)]

\* OpenOptions without truncate: the old bytes stay and writes start at 0.
open_no_truncate(f) == [data |-> f.data, pos |-> 0]

\* OpenOptions::new().write(true).create(true).truncate(true).open(path):
\* the open file, emptied, with the write position at its start.
open_write_create_truncate(f) == [data |-> <<>>, pos |-> 0]

\* Writing the chunks at the handle's position, over what is there.
write_all(h, chunks) ==
    LET end == h.pos + Len(chunks)
    IN  [exists |-> TRUE,
         data |-> SubSeq(h.data, 1, h.pos) \o chunks \o SubSeq(h.data, end + 1, Len(h.data))]

------------------------------------------------------------------------------
\* The decision of Goldrust::new

\* Every test gets the same golden file, whatever its name.
golden_file_path_shared(function_name) == "a" \o ".json"

\* Path::new(&golden_file_dir).join(format!("{}.json", function_name)), as a
\* path inside the golden file directory.
golden_file_path(function_name) == function_name \o ".json"

\* A live call also wins over an existing golden file.
response_source_prefer_external(allow_external_api_call, update_golden_files, golden_file_exists) ==
    CASE ~allow_external_api_call /\ update_golden_files -> "Panic"
      [] ~allow_external_api_call /\ ~update_golden_files /\ ~golden_file_exists -> "Panic"
      [] ~allow_external_api_call /\ ~update_golden_files /\ golden_file_exists -> "Local"
      [] OTHER -> "External"

\* A missing golden file is not fatal when external calls are forbidden.
response_source_no_panic(allow_external_api_call, update_golden_files, golden_file_exists) ==
    CASE ~allow_external_api_call /\ update_golden_files -> "Panic"
      [] ~update_golden_files /\ golden_file_exists -> "Local"
      [] OTHER -> "External"

\* An existing golden file wins even when an update is required.
response_source_fixture_first(allow_external_api_call, update_golden_files, golden_file_exists) ==
    CASE ~allow_external_api_call /\ update_golden_files -> "Panic"
      [] ~allow_external_api_call /\ ~golden_file_exists -> "Panic"
      [] golden_file_exists -> "Local"
      [] OTHER -> "External"

\* fn response_source: the match on the three booleans.
response_source(allow_external_api_call, update_golden_files, golden_file_exists) ==
    CASE ~allow_external_api_call /\ update_golden_files -> "Panic"
      [] ~allow_external_api_call /\ ~update_golden_files /\ ~golden_file_exists -> "Panic"
      [] ~allow_external_api_call /\ ~update_golden_files /\ golden_file_exists -> "Local"
      [] allow_external_api_call /\ ~update_golden_files /\ ~golden_file_exists -> "External"
      [] allow_external_api_call /\ ~update_golden_files /\ golden_file_exists -> "Local"
      [] allow_external_api_call /\ update_golden_files -> "External"

\* The save check starts pending whatever the configuration.
initial_save_check_pending(update_golden_files) == FALSE

\* let save_check = !update_golden_files;
initial_save_check(update_golden_files) == ~update_golden_files

\* save writes the golden file whatever the configuration.
save_skips_never(update_golden_files) == FALSE

\* if !self.update_golden_files { return Ok(()) }
save_skips(update_golden_files) == ~update_golden_files

\* Messages are sequences of parts: literal text and formatted arguments.
Text(t) == [kind |-> "text", val |-> t]
PathPart(p) == [kind |-> "path", val |-> p]

\* The messages of the two panic! calls of response_source: the first is a
\* literal, the second ends with golden_file_path.display().
panic_message(allow_external_api_call, update_golden_files, golden_file_exists, golden_file_path_) ==
    IF ~allow_external_api_call /\ update_golden_files
    THEN <<Text("Cannot update golden files without allowing external API calls")>>
    ELSE <<Text("Cannot test without allowing external API calls when golden files do not exist, create file: "),
           PathPart(golden_file_path_)>>

\* The message of the tracing::error! of Drop::drop, a literal.
drop_message(save_check) ==
    IF ~save_check THEN <<Text("Should save item to golden file.")>> ELSE <<>>

\* drop says nothing.
drop_outcome_silent(save_check) == "silent"

\* Drop::drop: an error event is logged when the save check is false; nothing
\* else happens, and drop returns normally in both cases.
drop_outcome(save_check) == IF ~save_check THEN "error_logged" ELSE "silent"

------------------------------------------------------------------------------
\* State

NoGoldrust ==
    [state |-> "none", update_golden_files |-> FALSE, golden_file_path |-> "a.json",
     response_source |-> "Local", save_check |-> FALSE]

NoEnv == [allow |-> FALSE, update |-> FALSE, exists |-> FALSE, path |-> "a.json", name |-> "a"]

NoOp == [op |-> "none", s |-> "t1", content |-> <<>>, result |-> "none", repeat |-> FALSE]

Init ==
    /\ fs \in [Paths -> {NoFile} \cup {[exists |-> TRUE, data |-> to_writer_pretty(c)] : c \in Contents}]
    /\ sess = [s \in Sess |-> NoGoldrust]
    /\ env = [s \in Sess |-> NoEnv]
    /\ calls = [s \in Sess |-> [saves |-> 0, ok |-> 0, opened |-> FALSE]]
    /\ teardown = [s \in Sess |-> "none"]
    /\ message = [s \in Sess |-> <<>>]
    /\ last = NoOp

\* Goldrust::new(function_name) for the test s, under the environment
\* variables allow and update.
New(s, function_name, allow, update) ==
    /\ sess[s].state = "none"
    /\ LET p == golden_file_path(function_name)
           exists == path_exists(fs[p])
           src == response_source(allow, update, exists)
       IN  /\ env' = [env EXCEPT ![s] = [allow |-> allow, update |-> update, exists |-> exists,
                                        path |-> p, name |-> function_name]]
           /\ IF src = "Panic"
              THEN /\ sess' = [sess EXCEPT ![s].state = "failed"]
                   /\ message' = [message EXCEPT ![s] = panic_message(allow, update, exists, p)]
                   /\ last' = [op |-> "new", s |-> s, content |-> <<>>, result |-> "Panic", repeat |-> FALSE]
              ELSE /\ message' = message
                   /\ sess' = [sess EXCEPT ![s] =
                          [state |-> "live", update_golden_files |-> update,
                           golden_file_path |-> p, response_source |-> src,
                           save_check |-> initial_save_check(update)]]
                   /\ last' = [op |-> "new", s |-> s, content |-> <<>>, result |-> "Ok", repeat |-> FALSE]
    /\ UNCHANGED <<fs, calls, teardown>>

\* save also takes the golden file it is about to write as the response source.
set_save_check_and_local(g) == [g EXCEPT !.save_check = TRUE, !.response_source = "Local"]

\* save records in the save check whether it is to write the golden file.
set_save_check_to_update(g) == [g EXCEPT !.save_check = g.update_golden_files]

\* self.save_check = true; no other field of the Goldrust value is assigned.
set_save_check(g) == [g EXCEPT !.save_check = TRUE]

\* This save call follows at once a save call of the same test that returned Ok
\* with the same content.
Repeats(s, content) ==
    last.op = "save" /\ last.s = s /\ last.result = "Ok" /\ last.content = content

\* Where a failing write is taken to fail: at the first write_all (the file was
\* created and emptied by open, nothing written) or at the last one.
FailPoints(chunks) == {0, Len(chunks) - 1}

\* Goldrust::save(content) on the test s. io is what the file system does:
\* "ok", "open_err" (open fails, the file is untouched) or "write_err" (a
\* write_all fails after the first k chunks were written).
Save(s, content, io, k) ==
    /\ sess[s].state = "live"
    /\ calls[s].saves < MaxSaves
    \* self.save_check = true, before anything else
    /\ sess' = [sess EXCEPT ![s] = set_save_check(@)]
    /\ LET g == sess[s]
           p == g.golden_file_path
           chunks == to_writer_pretty(content)
       IN  IF save_skips(g.update_golden_files)
           THEN \* return Ok(()) without touching the file
                /\ io = "ok" /\ k = 0
                /\ fs' = fs
                /\ calls' = [calls EXCEPT ![s] =
                       [saves |-> @.saves + 1, ok |-> @.ok + 1, opened |-> @.opened]]
                /\ last' = [op |-> "save", s |-> s, content |-> content, result |-> "Ok",
                            repeat |-> Repeats(s, content)]
           ELSE /\ CASE io = "open_err" ->
                          \* open(..)? returns the error
                          /\ k = 0
                          /\ fs' = fs
                     [] io = "write_err" ->
                          \* to_writer_pretty(..)? returns the error after k chunks
                          /\ k \in FailPoints(chunks)
                          /\ fs' = [fs EXCEPT ![p] =
                                 write_all(open_write_create_truncate(fs[p]), SubSeq(chunks, 1, k))]
                     [] OTHER ->
                          /\ k = 0
                          /\ fs' = [fs EXCEPT ![p] =
                                 write_all(open_write_create_truncate(fs[p]), chunks)]
                /\ calls' = [calls EXCEPT ![s] =
                       [saves |-> @.saves + 1, ok |-> IF io = "ok" THEN @.ok + 1 ELSE @.ok,
                        opened |-> @.opened \/ io # "open_err"]]
                /\ last' = [op |-> "save", s |-> s, content |-> content,
                            result |-> IF io = "ok" THEN "Ok" ELSE "Err",
                            repeat |-> Repeats(s, content)]
    /\ UNCHANGED <<env, teardown, message>>

\* The Goldrust value of the test s goes out of scope.
Drop(s) ==
    /\ sess[s].state = "live"
    /\ sess' = [sess EXCEPT ![s].state = "dropped"]
    /\ teardown' = [teardown EXCEPT ![s] = drop_outcome(sess[s].save_check)]
    /\ message' = [message EXCEPT ![s] = drop_message(sess[s].save_check)]
    /\ last' = [op |-> "drop", s |-> s, content |-> <<>>, result |-> drop_outcome(sess[s].save_check),
                repeat |-> FALSE]
    /\ UNCHANGED <<fs, env, calls>>

IoOutcomes == {"ok", "open_err", "write_err"}

\* The most chunks any content serializes to.
MaxChunks == 3 * MaxLen + 2

Next ==
    \/ \E s \in Sess, n \in Names, allow \in BOOLEAN, update \in BOOLEAN : New(s, n, allow, update)
    \/ \E s \in Sess, c \in Contents, io \in IoOutcomes, k \in 0..MaxChunks : Save(s, c, io, k)
    \/ \E s \in Sess : Drop(s)

Spec == Init /\ [][Next]_vars

------------------------------------------------------------------------------
\* Shorthands for the properties

Live(s) == sess[s].state = "live"
Dropped(s) == sess[s].state = "dropped"
Failed(s) == sess[s].state = "failed"
Refreshing(s) == sess[s].update_golden_files
FileOf(s) == fs[sess[s].golden_file_path]
Saved(c) == [exists |-> TRUE, data |-> to_writer_pretty(c)]

\* The step is a save call of the test s.
IsSave(s) == calls'[s].saves = calls[s].saves + 1

\* The step is Goldrust::new of the test s.
IsNew(s) == sess[s].state = "none" /\ sess'[s].state # "none"

\* What Goldrust::new of the test s came to.
Resolved(s) == IF Failed(s) THEN "ConfigError" ELSE sess[s].response_source

\* The decision table of the specification, row by row.
TruthTable(allowExternal, refreshFixtures, fixtureExists) ==
    LET row == <<allowExternal, refreshFixtures, fixtureExists>>
    IN  CASE row = <<FALSE, TRUE, FALSE>> -> "ConfigError"
          [] row = <<FALSE, TRUE, TRUE>> -> "ConfigError"
          [] row = <<FALSE, FALSE, FALSE>> -> "ConfigError"
          [] row = <<FALSE, FALSE, TRUE>> -> "Local"
          [] row = <<TRUE, FALSE, FALSE>> -> "External"
          [] row = <<TRUE, FALSE, TRUE>> -> "Local"
          [] row = <<TRUE, TRUE, FALSE>> -> "External"
          [] row = <<TRUE, TRUE, TRUE>> -> "External"

------------------------------------------------------------------------------
\* C1: whatever (allowExternal, refreshFixtures, fixtureExists) Goldrust::new
\* ran under, it came to the outcome of the truth table: a configuration error
\* for (false,true,*) and (false,false,false), Local for (*,false,true),
\* External for (true,false,false) and (true,true,*).
C1_DecisionTable ==
    \A s \in Sess :
        sess[s].state # "none" =>
            Resolved(s) = TruthTable(env[s].allow, env[s].update, env[s].exists)

\* One test got Local although external calls were allowed, the other was
\* refused a refresh without permission although its golden file exists.
C1_Witness ==
    \E s, t \in Sess :
        /\ Live(s) /\ env[s].allow /\ ~env[s].update /\ env[s].exists
        /\ sess[s].response_source = "Local"
        /\ Failed(t) /\ ~env[t].allow /\ env[t].update /\ env[t].exists

\* C2: a dropped Goldrust value that was to update its golden file reported the
\* unmet obligation if save was never called on it, and reported nothing if
\* save was called exactly once and returned Ok.
C2_Obligation ==
    \A s \in Sess :
        (Dropped(s) /\ Refreshing(s)) =>
            /\ calls[s].saves = 0 => teardown[s] = "error_logged"
            /\ (calls[s].saves = 1 /\ calls[s].ok = 1) => teardown[s] = "silent"

\* Both cases at once: one refreshing test dropped without a save, the other
\* dropped after its one successful save.
C2_Witness ==
    \E s, t \in Sess :
        /\ Dropped(s) /\ Refreshing(s) /\ calls[s].saves = 0 /\ teardown[s] = "error_logged"
        /\ Dropped(t) /\ Refreshing(t) /\ calls[t].saves = 1 /\ calls[t].ok = 1
        /\ teardown[t] = "silent"

\* C3: on a refreshing Goldrust value none of whose save calls returned Ok, the
\* save check is still false, and dropping it reports the unmet obligation.
C3_FailedSaveKeepsObligation ==
    \A s \in Sess :
        (Refreshing(s) /\ calls[s].ok = 0) =>
            /\ Live(s) => ~sess[s].save_check
            /\ Dropped(s) => teardown[s] = "error_logged"

\* C4: dropping a refreshing Goldrust value whose save check is false is fatal:
\* the drop panics.
C4_TeardownFatal ==
    \A s \in Sess :
        (Dropped(s) /\ Refreshing(s) /\ ~sess[s].save_check) => teardown[s] = "panic"

C6_SavedContentIsOnDisk ==
    \A s \in Sess :
        (last.op = "save" /\ last.s = s /\ last.result = "Ok" /\ Refreshing(s)) =>
            FileOf(s) = Saved(last.content)

\* A second successful save, of the empty array, on a golden file that existed
\* when the test started.
C6_Witness ==
    \E s \in Sess :
        /\ last.op = "save" /\ last.s = s /\ last.result = "Ok" /\ Refreshing(s)
        /\ calls[s].ok >= 2 /\ env[s].exists
        /\ last.content = <<>> /\ FileOf(s) = Saved(<<>>)

\* C7: a save call that returns Ok right after a save call of the same
\* refreshing Goldrust value that returned Ok with the same content leaves the
\* golden files and the save check as they were.
C7_SaveIdempotent ==
    [][\A s \in Sess :
          (IsSave(s) /\ Refreshing(s) /\ last'.repeat /\ last'.result = "Ok") =>
              (fs' = fs /\ sess'[s].save_check = sess[s].save_check)]_vars

\* The same content was saved twice in a row, both times with success.
C7_Witness ==
    /\ last.op = "save" /\ last.repeat /\ last.result = "Ok"
    /\ Refreshing(last.s) /\ last.content # <<>>
    /\ FileOf(last.s) = Saved(last.content)

\* C8: Goldrust::new changes no file, whether it returns or panics; under each
\* of the three fatal combinations it panics and no Goldrust value exists, on
\* which no save ever runs and no drop ever happens.
C8_NewTouchesNothing ==
    /\ [][\A s \in Sess :
             IsNew(s) =>
                 /\ fs' = fs
                 /\ (~env'[s].allow /\ (env'[s].update \/ ~env'[s].exists)) =>
                        (sess'[s].state = "failed" /\ last'.result = "Panic")]_vars
    /\ [](\A s \in Sess : Failed(s) => (calls[s].saves = 0 /\ teardown[s] = "none"))

\* Goldrust::new panicked for want of a golden file and of permission, and the
\* golden file is still absent although the other test went on.
C8_Witness ==
    \E s \in Sess :
        /\ Failed(s) /\ ~env[s].allow /\ ~env[s].update /\ ~env[s].exists
        /\ ~fs[env[s].path].exists
        /\ last.op # "new"

\* C9: when the golden file did not exist or an update was required, and
\* external calls were allowed, the Goldrust value resolved External and, right
\* after a save call on it returned, the golden file exists with the content
\* passed to save.
C9_ExternalResponseIsSaved ==
    \A s \in Sess :
        (sess[s].state \in {"live", "dropped"} /\ env[s].allow /\ (~env[s].exists \/ env[s].update)) =>
            /\ sess[s].response_source = "External"
            /\ (last.op = "save" /\ last.s = s /\ last.result = "Ok") =>
                   FileOf(s) = Saved(last.content)

\* C10: Goldrust::new returns a value whose save check is the negation of its
\* update flag; and a dropped Goldrust value that was not to update its golden
\* file reported nothing, whatever was done with it.
C10_InitialSaveCheck ==
    \A s \in Sess :
        /\ (last.op = "new" /\ last.s = s /\ last.result = "Ok") =>
               sess[s].save_check = ~sess[s].update_golden_files
        /\ (Dropped(s) /\ ~Refreshing(s)) => teardown[s] = "silent"

\* A test that was not to refresh was dropped without a single save call, and
\* the other test was just constructed to refresh.
C10_Witness ==
    \E s, t \in Sess :
        /\ Dropped(s) /\ ~Refreshing(s) /\ calls[s].saves = 0 /\ teardown[s] = "silent"
        /\ last.op = "new" /\ last.s = t /\ last.result = "Ok" /\ Refreshing(t)
        /\ ~sess[t].save_check

\* The step is the drop of the Goldrust value of the test s.
IsDrop(s) == sess[s].state = "live" /\ sess'[s].state = "dropped"

\* C11: while a Goldrust value exists, and when it is dropped, its response
\* source, its golden file path and its update flag stay what Goldrust::new
\* made them, whatever save does to the golden file.
C11_ResolvedOnce ==
    [][\A s \in Sess :
          Live(s) =>
              /\ sess'[s].response_source = sess[s].response_source
              /\ sess'[s].golden_file_path = sess[s].golden_file_path
              /\ sess'[s].update_golden_files = sess[s].update_golden_files]_vars

\* A test resolved External because its golden file was absent; its save has
\* created the file, it was dropped, and it still says External.
C11_Witness ==
    \E s \in Sess :
        /\ Dropped(s) /\ ~env[s].exists /\ Refreshing(s)
        /\ calls[s].ok >= 1 /\ calls[s].saves > calls[s].ok
        /\ FileOf(s).exists
        /\ sess[s].response_source = "External"

\* The test t was just constructed, after everything the test s has done so
\* far on the same golden file path, and s was allowed to call out and to
\* update the golden file.
ReplaysAfter(s, t) ==
    /\ s # t
    /\ last.op = "new" /\ last.s = t
    /\ sess[s].state \in {"live", "dropped"}
    /\ env[s].allow /\ env[s].update
    /\ env[s].path = env[t].path

\* Once the recording test has had a save call return Ok, a test constructed
\* later without update resolves Local, with or without permission.
ReplayIsLocal(s, t) ==
    (ReplaysAfter(s, t) /\ calls[s].ok >= 1 /\ ~env[t].update) =>
        (Live(t) /\ sess[t].response_source = "Local")

\* C12 as claimed: a test constructed after a recording test saved with
\* success resolves Local when it is not to update; and when the golden file
\* was absent and the recording test was dropped without a save call that
\* returned Ok, a test constructed later without permission gets the
\* configuration error.
C12_RecordThenReplay ==
    \A s, t \in Sess :
        /\ ReplayIsLocal(s, t)
        /\ (ReplaysAfter(s, t) /\ ~env[s].exists /\ Dropped(s) /\ calls[s].ok = 0
               /\ ~env[t].allow) => Failed(t)

\* C12 as amended: the configuration error follows when no save call of the
\* recording test got as far as opening the golden file (save never called, or
\* every call failed in open).
C12_RecordThenReplayUnopened ==
    \A s, t \in Sess :
        /\ ReplayIsLocal(s, t)
        /\ (ReplaysAfter(s, t) /\ ~env[s].exists /\ Dropped(s) /\ ~calls[s].opened
               /\ ~env[t].allow) => Failed(t)

\* The recording test found no golden file, its only save calls failed in
\* open, it was dropped, and the next test, without permission and without
\* update, has just got the configuration error.
C12_Witness ==
    \E s, t \in Sess :
        /\ ReplaysAfter(s, t) /\ ~env[s].exists /\ Dropped(s)
        /\ calls[s].saves >= 1 /\ ~calls[s].opened
        /\ ~env[t].allow /\ ~env[t].update /\ Failed(t)

\* C13: a Goldrust value whose save check is false resolved External and was
\* constructed with external calls allowed; one that resolved Local has its
\* save check true, and its drop reports nothing.
C13_PendingImpliesExternal ==
    \A s \in Sess :
        sess[s].state \in {"live", "dropped"} =>
            /\ ~sess[s].save_check =>
                   (sess[s].response_source = "External" /\ env[s].allow)
            /\ sess[s].response_source = "Local" =>
                   (sess[s].save_check /\ teardown[s] \in {"none", "silent"})

\* One test is External with its save pending, the other resolved Local, was
\* never saved to and was dropped in silence.
C13_Witness ==
    \E s, t \in Sess :
        /\ Live(s) /\ ~sess[s].save_check /\ sess[s].response_source = "External"
        /\ Dropped(t) /\ sess[t].response_source = "Local" /\ calls[t].saves = 0
        /\ teardown[t] = "silent"

\* C14: once the save check of a Goldrust value is true, no save call, whether
\* it returns Ok or an error, and no drop makes it false again.
C14_SaveCheckMonotonic ==
    [][\A s \in Sess :
          (sess[s].state \in {"live", "dropped"} /\ sess[s].save_check) =>
              sess'[s].save_check]_vars

\* A refreshing test had a save return Ok and then a save return an error, and
\* its save check is true.
C14_Witness ==
    \E s \in Sess :
        /\ Live(s) /\ Refreshing(s) /\ calls[s].ok = 1 /\ calls[s].saves = 2
        /\ last.op = "save" /\ last.s = s /\ last.result = "Err"
        /\ sess[s].save_check

\* The step is an operation of the test t.
StepOf(t) == IsNew(t) \/ IsSave(t) \/ IsDrop(t)

\* C15: tests with different names have different golden file paths, and an
\* operation of one test (new, save, drop) changes nothing of another test
\* (its Goldrust value, what new read, its save results, its drop outcome) and
\* no file but the one at its own golden file path; so a test on another path
\* goes through the same states as when it runs alone.
C15_Independent ==
    /\ [](\A s, t \in Sess :
             (sess[s].state # "none" /\ sess[t].state # "none"
                 /\ env[s].name # env[t].name) => env[s].path # env[t].path)
    /\ [][\A t \in Sess :
             StepOf(t) =>
                 /\ \A s \in Sess \ {t} :
                        /\ sess'[s] = sess[s] /\ env'[s] = env[s]
                        /\ calls'[s] = calls[s] /\ teardown'[s] = teardown[s]
                        /\ message'[s] = message[s]
                 /\ \A p \in Paths \ {env'[t].path} : fs'[p] = fs[p]]_vars

\* Two refreshing tests on different paths have both saved, the one after the
\* other, and each golden file holds what its own test saved.
C15_Witness ==
    \E s, t \in Sess :
        /\ Live(s) /\ Live(t) /\ env[s].path # env[t].path
        /\ Refreshing(s) /\ Refreshing(t)
        /\ calls[s].ok = 1 /\ calls[s].saves = 1 /\ calls[t].ok = 1 /\ calls[t].saves = 1
        /\ last.op = "save" /\ last.s = t /\ last.content = <<>>
        /\ FileOf(t) = Saved(<<>>) /\ FileOf(s) = Saved(<<0>>)

\* The message names the path p.
CarriesPath(msg, p) == \E i \in 1..Len(msg) : msg[i].kind = "path" /\ msg[i].val = p

\* The message gives the values of the booleans of the decision.
CarriesFlags(msg) == \E i \in 1..Len(msg) : msg[i].kind = "flags"

\* C16: the message of every panic of Goldrust::new and of every error event
\* of a drop names the golden file path and gives the boolean combination
\* that led to it.
C16_MessagesAreDiagnosable ==
    \A s \in Sess :
        (Failed(s) \/ teardown[s] = "error_logged") =>
            (CarriesPath(message[s], env[s].path) /\ CarriesFlags(message[s]))

====
